---- MODULE Spec2Model ----
(***************************************************************************)
(* Model of the carrier scoring endpoints:                                 *)
(*   src/api/carrier-scorecard.js  calculateScorecard (pure scorer) and    *)
(*                                 the POST handler with its four fetches  *)
(*   src/api/safer-relay.js        the POST handler with its single fetch  *)
(*                                                                         *)
(* Percentages that the code holds as floats (growth_trend_pct, the OOS    *)
(* rates and national averages) are fixed-point numbers here: the stored   *)
(* integer is the percentage times PctScale.  The weighted total, a float  *)
(* sum in the code, is kept in hundredths of a point.                      *)
(***************************************************************************)
EXTENDS Integers, Sequences, FiniteSets, TLC

VARIABLES
    data,       \* the profile handed to calculateScorecard
    result,     \* what calculateScorecard returned, or NoResult before the call
    route,      \* which file's handler serves the request: "scorecard" or "relay"
    req,        \* the HTTP request: method, whether it has a body, the body
    pc,         \* the handler's position: start, awaiting (the fetches),
                \* reading (the body, safer-relay.js only), done, threw
    fetches,    \* per upstream endpoint, the state of the promise of fetch()
    parse,      \* per upstream endpoint, the state of the promise of json()
    res         \* the response sent, or NoResponse

handlerVars == <<route, req, pc, fetches, parse, res>>
vars == <<data, result, route, req, pc, fetches, parse, res>>

----------------------------------------------------------------------------
(* Bounds of the scorer's input space *)

MaxAgeMonths == 37       \* authority_age_months ranges over 0..MaxAgeMonths
MaxCount == 3            \* violation and crash counts range over 0..MaxCount
MaxRate == 6             \* OOS rates range over 0..MaxRate fixed-point steps
MaxAvg == 5              \* national averages range over 0..MaxAvg steps
MaxInspections == 15     \* total_inspections_24mo ranges over 0..MaxInspections
MaxBipdUnits == 5        \* bipd_limit_usd ranges over multiples of $250,000
PctScale == 2            \* fixed-point steps per percentage point
MaxRecords == 2          \* upstream record lists hold up to MaxRecords records
MaxRepeated == 7         \* or one record repeated up to MaxRepeated times
NegGrowth == 1           \* growth_trend_pct goes down to -NegGrowth steps
MaxGrowth == 61          \* growth_trend_pct goes up to MaxGrowth steps

----------------------------------------------------------------------------
(* Field domains of the profile read by calculateScorecard *)

StatusEnum == {"Active", "Inactive", "Unknown"}
Mcs150Enum == {"Current", "Outdated"}
SafetyRatingEnum == {"Satisfactory", "Conditional", "Unsatisfactory", "None"}
EmailTypeEnum == {"DomainMatch", "FreeEmail", "Unknown"}
CallbackEnum == {"Verified", "Confirmed", "NotDone", "Refused"}

BipdLimits == {k * 250000 : k \in 0..MaxBipdUnits}
GrowthSteps == (0 - NegGrowth)..MaxGrowth

AuthorityFields ==
    [usdot_status : StatusEnum,
     operating_authority_status : StatusEnum,
     authority_age_months : 0..MaxAgeMonths,
     mcs150_biennial_update : Mcs150Enum]

DoubleBrokerageFields ==
    [authority_scope_mismatch : BOOLEAN,
     contact_mismatch : BOOLEAN,
     email_type : EmailTypeEnum,
     insurance_holder_is_third_party : BOOLEAN,
     insurer_callback_status : CallbackEnum,
     load_reposting_observed : BOOLEAN,
     reposting_disclosed : BOOLEAN]

SafetyFields ==
    [safety_rating : SafetyRatingEnum,
     drug_alcohol_violations : 0..MaxCount,
     fatal_crashes : 0..MaxCount,
     injury_crashes : 0..MaxCount,
     fatal_crash_at_fault : BOOLEAN]

InspectionFields ==
    [vehicle_oos_rate_pct : 0..MaxRate,
     driver_oos_rate_pct : 0..MaxRate,
     total_inspections_24mo : 0..MaxInspections,
     national_avg_vehicle : 0..MaxAvg,
     national_avg_driver : 0..MaxAvg]

InsuranceFields ==
    [bipd_filing_active : BOOLEAN,
     bipd_limit_usd : BipdLimits,
     cargo_insurance_verified : BOOLEAN,
     insurer_callback_status : CallbackEnum]

BusinessFields ==
    [website_active_12mo : BOOLEAN,
     facebook_active_12mo : BOOLEAN,
     address_consistent_with_fmcsa : BOOLEAN,
     growth_trend_pct : GrowthSteps]

----------------------------------------------------------------------------
(* The scorer, src/api/carrier-scorecard.js lines 14-219 *)

calculateAuthorityAge(d) ==
    LET s1 == IF d.usdot_status = "Active" THEN 25 ELSE 0
        s2 == IF d.operating_authority_status = "Active" THEN 35 ELSE 0
        s3 == IF d.authority_age_months >= 36 THEN 25
              ELSE IF d.authority_age_months >= 24 THEN 18
              ELSE IF d.authority_age_months >= 12 THEN 10
              ELSE 0
        s4 == IF d.mcs150_biennial_update = "Current" THEN 15 ELSE 0
    IN  [score |-> s1 + s2 + s3 + s4, maxScore |-> 100]

calculateDoubleBrokerageRisk(d) ==
    LET s1 == IF ~d.authority_scope_mismatch THEN 18 ELSE 0
        s2 == IF ~d.contact_mismatch THEN 10 ELSE 0
        s3 == IF d.email_type = "DomainMatch" THEN 12
              ELSE IF d.email_type = "FreeEmail" THEN 4
              ELSE 0
        s4 == IF ~d.insurance_holder_is_third_party THEN 18 ELSE 0
        s5 == IF d.insurer_callback_status = "Verified" THEN 22
              ELSE IF d.insurer_callback_status = "NotDone" THEN 8
              ELSE 0
        s6 == IF ~d.load_reposting_observed THEN 20 ELSE 0
    IN  [score |-> s1 + s2 + s3 + s4 + s5 + s6, maxScore |-> 100]

\* without the partial credit for one or two injury crashes
calculateSafetyComplianceDroppedInjury(d) ==
    LET s1 == IF d.safety_rating = "Satisfactory" THEN 35
              ELSE IF d.safety_rating = "None" THEN 22
              ELSE IF d.safety_rating = "Conditional" THEN 8
              ELSE 0
        s2 == IF d.drug_alcohol_violations = 0 THEN 30 ELSE 0
        s3 == IF d.fatal_crashes = 0 THEN 20 ELSE 0
        s4 == IF d.injury_crashes = 0 THEN 15 ELSE 0
    IN  [score |-> s1 + s2 + s3 + s4, maxScore |-> 100]

calculateSafetyCompliance(d) ==
    LET s1 == IF d.safety_rating = "Satisfactory" THEN 35
              ELSE IF d.safety_rating = "None" THEN 22
              ELSE IF d.safety_rating = "Conditional" THEN 8
              ELSE 0
        s2 == IF d.drug_alcohol_violations = 0 THEN 30 ELSE 0
        s3 == IF d.fatal_crashes = 0 THEN 20 ELSE 0
        s4 == IF d.injury_crashes = 0 THEN 15
              ELSE IF d.injury_crashes <= 2 THEN 8
              ELSE 0
    IN  [score |-> s1 + s2 + s3 + s4, maxScore |-> 100]

\* the first vehicle comparison strict (<) instead of <=
calculateInspectionsOOSStrict(d) ==
    LET s1 == IF 10 * d.vehicle_oos_rate_pct < 8 * d.national_avg_vehicle THEN 45
              ELSE IF d.vehicle_oos_rate_pct <= d.national_avg_vehicle THEN 35
              ELSE IF 10 * d.vehicle_oos_rate_pct <= 12 * d.national_avg_vehicle THEN 20
              ELSE 0
        s2 == IF 10 * d.driver_oos_rate_pct <= 8 * d.national_avg_driver THEN 35
              ELSE IF d.driver_oos_rate_pct <= d.national_avg_driver THEN 25
              ELSE IF 10 * d.driver_oos_rate_pct <= 12 * d.national_avg_driver THEN 10
              ELSE 0
        s3 == IF d.total_inspections_24mo >= 15 THEN 20
              ELSE IF d.total_inspections_24mo >= 5 THEN 10
              ELSE 5
    IN  [score |-> s1 + s2 + s3, maxScore |-> 100]

\* rate <= avg * 0.8, rate <= avg, rate <= avg * 1.2 on fixed-point values
calculateInspectionsOOS(d) ==
    LET s1 == IF 10 * d.vehicle_oos_rate_pct <= 8 * d.national_avg_vehicle THEN 45
              ELSE IF d.vehicle_oos_rate_pct <= d.national_avg_vehicle THEN 35
              ELSE IF 10 * d.vehicle_oos_rate_pct <= 12 * d.national_avg_vehicle THEN 20
              ELSE 0
        s2 == IF 10 * d.driver_oos_rate_pct <= 8 * d.national_avg_driver THEN 35
              ELSE IF d.driver_oos_rate_pct <= d.national_avg_driver THEN 25
              ELSE IF 10 * d.driver_oos_rate_pct <= 12 * d.national_avg_driver THEN 10
              ELSE 0
        s3 == IF d.total_inspections_24mo >= 15 THEN 20
              ELSE IF d.total_inspections_24mo >= 5 THEN 10
              ELSE 5
    IN  [score |-> s1 + s2 + s3, maxScore |-> 100]

calculateInsuranceVerification(d) ==
    LET s1 == IF d.bipd_filing_active THEN 40 ELSE 0
        s2 == IF d.bipd_limit_usd >= 1000000 THEN 25
              ELSE IF d.bipd_limit_usd >= 750000 THEN 15
              ELSE 5
        s3 == IF d.cargo_insurance_verified THEN 15 ELSE 5
        s4 == IF d.insurer_callback_status = "Verified" THEN 20
              ELSE IF d.insurer_callback_status = "NotDone" THEN 5
              ELSE 0
    IN  [score |-> s1 + s2 + s3 + s4, maxScore |-> 100]

\* the growth bonus of the spec's text (+30) in place of the code's +20
calculateBusinessLegitimacyGrowth30(d) ==
    LET s1 == IF d.website_active_12mo THEN 35 ELSE 10
        s2 == IF d.facebook_active_12mo THEN 20 ELSE 10
        s3 == IF d.address_consistent_with_fmcsa THEN 25 ELSE 0
        s4 == IF d.growth_trend_pct >= 30 * PctScale THEN 30
              ELSE IF d.growth_trend_pct >= 11 * PctScale THEN 18
              ELSE IF d.growth_trend_pct >= 2 * PctScale THEN 10
              ELSE IF d.growth_trend_pct >= 1 * PctScale THEN 5
              ELSE 0
    IN  [score |-> s1 + s2 + s3 + s4, maxScore |-> 100]

calculateBusinessLegitimacy(d) ==
    LET s1 == IF d.website_active_12mo THEN 35 ELSE 10
        s2 == IF d.facebook_active_12mo THEN 20 ELSE 10
        s3 == IF d.address_consistent_with_fmcsa THEN 25 ELSE 0
        s4 == IF d.growth_trend_pct >= 30 * PctScale THEN 20
              ELSE IF d.growth_trend_pct >= 11 * PctScale THEN 18
              ELSE IF d.growth_trend_pct >= 2 * PctScale THEN 10
              ELSE IF d.growth_trend_pct >= 1 * PctScale THEN 5
              ELSE 0
    IN  [score |-> s1 + s2 + s3 + s4, maxScore |-> 100]

Trigger(id, reason) == [id |-> id, reason |-> reason]

PushIf(cond, seq, t) == IF cond THEN Append(seq, t) ELSE seq

\* without the third-party insurance holder trigger
checkRejectTriggersNoThirdParty(d, categories) ==
    LET t1 == PushIf(d.fatal_crashes > 0 /\ d.fatal_crash_at_fault, <<>>,
                     Trigger("SAFETY_FATAL_CRASH", "Fatal crash with carrier fault"))
        t2 == PushIf(d.drug_alcohol_violations > 0, t1,
                     Trigger("SAFETY_DRUG_ALCOHOL", "Drug/Alcohol violation present"))
        t3 == PushIf(d.safety_rating = "Unsatisfactory", t2,
                     Trigger("SAFETY_RATING_UNSAT", "FMCSA safety rating Unsatisfactory"))
        t4 == PushIf(d.insurer_callback_status = "Refused", t3,
                     Trigger("DB_REFUSED_INSURER_CALLBACK", "Refused insurer callback"))
        t5 == PushIf(d.authority_scope_mismatch, t4,
                     Trigger("DB_OUTSIDE_AUTHORITY_SCOPE", "Operating outside authority scope"))
        t7 == PushIf(d.load_reposting_observed /\ ~d.reposting_disclosed, t5,
                     Trigger("DB_REPOSTING_NO_DISCLOSURE", "Load reposting without disclosure"))
    IN  t7

checkRejectTriggers(d, categories) ==
    LET t1 == PushIf(d.fatal_crashes > 0 /\ d.fatal_crash_at_fault, <<>>,
                     Trigger("SAFETY_FATAL_CRASH", "Fatal crash with carrier fault"))
        t2 == PushIf(d.drug_alcohol_violations > 0, t1,
                     Trigger("SAFETY_DRUG_ALCOHOL", "Drug/Alcohol violation present"))
        t3 == PushIf(d.safety_rating = "Unsatisfactory", t2,
                     Trigger("SAFETY_RATING_UNSAT", "FMCSA safety rating Unsatisfactory"))
        t4 == PushIf(d.insurer_callback_status = "Refused", t3,
                     Trigger("DB_REFUSED_INSURER_CALLBACK", "Refused insurer callback"))
        t5 == PushIf(d.authority_scope_mismatch, t4,
                     Trigger("DB_OUTSIDE_AUTHORITY_SCOPE", "Operating outside authority scope"))
        t6 == PushIf(d.insurance_holder_is_third_party, t5,
                     Trigger("DB_THIRD_PARTY_INS_HOLDER", "Third party listed as insurance holder"))
        t7 == PushIf(d.load_reposting_observed /\ ~d.reposting_disclosed, t6,
                     Trigger("DB_REPOSTING_NO_DISCLOSURE", "Load reposting without disclosure"))
    IN  t7

\* the score thresholds consulted before the triggers
getRecommendationScoreFirst(score, triggers) ==
    IF score >= 86 THEN [text |-> "Approved Low Risk", riskLevel |-> "Low Risk"]
    ELSE IF Len(triggers) > 0
    THEN [text |-> "Reject / Do Not Use", riskLevel |-> "High Risk (Auto-Reject)"]
    ELSE IF score >= 75
    THEN [text |-> "Conditional Verification Required", riskLevel |-> "Moderate Risk"]
    ELSE [text |-> "Reject / Do Not Use", riskLevel |-> "High Risk"]

\* approval above 86 instead of from 86
getRecommendationOffByOne(score, triggers) ==
    IF Len(triggers) > 0
    THEN [text |-> "Reject / Do Not Use", riskLevel |-> "High Risk (Auto-Reject)"]
    ELSE IF score > 86
    THEN [text |-> "Approved Low Risk", riskLevel |-> "Low Risk"]
    ELSE IF score >= 75
    THEN [text |-> "Conditional Verification Required", riskLevel |-> "Moderate Risk"]
    ELSE [text |-> "Reject / Do Not Use", riskLevel |-> "High Risk"]

getRecommendation(score, triggers) ==
    IF Len(triggers) > 0
    THEN [text |-> "Reject / Do Not Use", riskLevel |-> "High Risk (Auto-Reject)"]
    ELSE IF score >= 86
    THEN [text |-> "Approved Low Risk", riskLevel |-> "Low Risk"]
    ELSE IF score >= 75
    THEN [text |-> "Conditional Verification Required", riskLevel |-> "Moderate Risk"]
    ELSE [text |-> "Reject / Do Not Use", riskLevel |-> "High Risk"]

\* the weights object, in hundredths
\* the weights of doubleBrokerageRisk and safetyCompliance exchanged
weightsSwapped ==
    [fmcsaAuthorityAge |-> 20, doubleBrokerageRisk |-> 20, safetyCompliance |-> 25,
     inspectionsOOS |-> 15, insuranceVerification |-> 15, businessLegitimacy |-> 5]

weights ==
    [fmcsaAuthorityAge |-> 20, doubleBrokerageRisk |-> 25, safetyCompliance |-> 20,
     inspectionsOOS |-> 15, insuranceVerification |-> 15, businessLegitimacy |-> 5]

\* key order of the categories object, the order the for-in loop walks
CategoryOrder ==
    <<"fmcsaAuthorityAge", "doubleBrokerageRisk", "safetyCompliance",
      "inspectionsOOS", "insuranceVerification", "businessLegitimacy">>

\* totalScore after the first n rounds of the loop, in hundredths of a point
RECURSIVE AccumulateScore(_, _)
AccumulateScore(categories, n) ==
    IF n = 0 THEN 0
    ELSE AccumulateScore(categories, n - 1)
         + categories[CategoryOrder[n]].score * weights[CategoryOrder[n]]

\* Math.round of x hundredths: the nearest integer, a half rounding up
MathRound(x) == (x + 50) \div 100

calculateScorecard(d) ==
    LET categories ==
            [fmcsaAuthorityAge |-> calculateAuthorityAge(d),
             doubleBrokerageRisk |-> calculateDoubleBrokerageRisk(d),
             safetyCompliance |-> calculateSafetyCompliance(d),
             inspectionsOOS |-> calculateInspectionsOOS(d),
             insuranceVerification |-> calculateInsuranceVerification(d),
             businessLegitimacy |-> calculateBusinessLegitimacy(d)]
        totalScore == MathRound(AccumulateScore(categories, Len(CategoryOrder)))
        rejectTriggers == checkRejectTriggers(d, categories)
        recommendation == getRecommendation(totalScore, rejectTriggers)
    IN  [version |-> "1.0.0",
         name |-> "Standard Carrier Scorecard Auto-Scoring Model",
         score |-> totalScore,
         recommendation |-> recommendation.text,
         riskLevel |-> recommendation.riskLevel,
         categories |-> categories,
         rejectTriggers |-> rejectTriggers]

----------------------------------------------------------------------------
(* Profiles the scorer is run on: a base profile with the fields of one     *)
(* category group replaced by any values of their domains                   *)

PerfectProfile ==
    [usdot_status |-> "Active", operating_authority_status |-> "Active",
     authority_age_months |-> 36, mcs150_biennial_update |-> "Current",
     authority_scope_mismatch |-> FALSE, contact_mismatch |-> FALSE,
     email_type |-> "DomainMatch", insurance_holder_is_third_party |-> FALSE,
     insurer_callback_status |-> "Verified", load_reposting_observed |-> FALSE,
     reposting_disclosed |-> FALSE,
     safety_rating |-> "Satisfactory", drug_alcohol_violations |-> 0,
     fatal_crashes |-> 0, injury_crashes |-> 0, fatal_crash_at_fault |-> FALSE,
     vehicle_oos_rate_pct |-> 0, driver_oos_rate_pct |-> 0,
     total_inspections_24mo |-> 15, national_avg_vehicle |-> 5,
     national_avg_driver |-> 5,
     bipd_filing_active |-> TRUE, bipd_limit_usd |-> 1000000,
     cargo_insurance_verified |-> TRUE,
     website_active_12mo |-> TRUE, facebook_active_12mo |-> TRUE,
     address_consistent_with_fmcsa |-> TRUE, growth_trend_pct |-> 30 * PctScale]

\* perfect in every field the spec's "perfect profile" names, least in the rest
MinimalPerfectProfile ==
    [PerfectProfile EXCEPT !.email_type = "Unknown",
                           !.total_inspections_24mo = 0,
                           !.national_avg_vehicle = 0,
                           !.national_avg_driver = 0,
                           !.growth_trend_pct = 1]

ModerateProfile ==
    [usdot_status |-> "Active", operating_authority_status |-> "Active",
     authority_age_months |-> 24, mcs150_biennial_update |-> "Current",
     authority_scope_mismatch |-> FALSE, contact_mismatch |-> TRUE,
     email_type |-> "FreeEmail", insurance_holder_is_third_party |-> FALSE,
     insurer_callback_status |-> "NotDone", load_reposting_observed |-> FALSE,
     reposting_disclosed |-> FALSE,
     safety_rating |-> "None", drug_alcohol_violations |-> 0,
     fatal_crashes |-> 0, injury_crashes |-> 1, fatal_crash_at_fault |-> FALSE,
     vehicle_oos_rate_pct |-> 5, driver_oos_rate_pct |-> 5,
     total_inspections_24mo |-> 5, national_avg_vehicle |-> 5,
     national_avg_driver |-> 5,
     bipd_filing_active |-> TRUE, bipd_limit_usd |-> 750000,
     cargo_insurance_verified |-> TRUE,
     website_active_12mo |-> TRUE, facebook_active_12mo |-> TRUE,
     address_consistent_with_fmcsa |-> TRUE, growth_trend_pct |-> 2 * PctScale]

LowProfile ==
    [usdot_status |-> "Inactive", operating_authority_status |-> "Unknown",
     authority_age_months |-> 0, mcs150_biennial_update |-> "Outdated",
     authority_scope_mismatch |-> FALSE, contact_mismatch |-> TRUE,
     email_type |-> "Unknown", insurance_holder_is_third_party |-> FALSE,
     insurer_callback_status |-> "Confirmed", load_reposting_observed |-> TRUE,
     reposting_disclosed |-> TRUE,
     safety_rating |-> "Conditional", drug_alcohol_violations |-> 0,
     fatal_crashes |-> 1, injury_crashes |-> 3, fatal_crash_at_fault |-> FALSE,
     vehicle_oos_rate_pct |-> 5, driver_oos_rate_pct |-> 5,
     total_inspections_24mo |-> 0, national_avg_vehicle |-> 1,
     national_avg_driver |-> 1,
     bipd_filing_active |-> FALSE, bipd_limit_usd |-> 0,
     cargo_insurance_verified |-> FALSE,
     website_active_12mo |-> FALSE, facebook_active_12mo |-> FALSE,
     address_consistent_with_fmcsa |-> FALSE, growth_trend_pct |-> 0]

WorstProfile ==
    [LowProfile EXCEPT !.authority_scope_mismatch = TRUE,
                       !.insurance_holder_is_third_party = TRUE,
                       !.insurer_callback_status = "Refused",
                       !.reposting_disclosed = FALSE,
                       !.safety_rating = "Unsatisfactory",
                       !.drug_alcohol_violations = 1,
                       !.fatal_crash_at_fault = TRUE,
                       !.growth_trend_pct = 0 - NegGrowth]

BaseProfiles ==
    {PerfectProfile, MinimalPerfectProfile, ModerateProfile, LowProfile, WorstProfile}

FieldGroups ==
    AuthorityFields \cup DoubleBrokerageFields \cup SafetyFields
        \cup InspectionFields \cup InsuranceFields \cup BusinessFields

Override(base, g) ==
    [k \in DOMAIN base |-> IF k \in DOMAIN g THEN g[k] ELSE base[k]]

Profiles == {Override(base, g) : base \in BaseProfiles, g \in FieldGroups}

NoResult == [version |-> "none"]

----------------------------------------------------------------------------
(* Requests, upstream responses and fetch promises of the two handlers *)

Methods == {"GET", "POST"}

\* req.body as parsed by the platform: an object in which either identifier
\* may be missing (or, for mc_number, the empty string)
McNumbers == {"", "MC123456"}
UsdotNumbers == {"1234567"}

RequestBodies ==
    {<<>>} \cup {[mc_number |-> m] : m \in McNumbers}
        \cup {[usdot_number |-> u] : u \in UsdotNumbers}
        \cup {[mc_number |-> m, usdot_number |-> u] : m \in McNumbers, u \in UsdotNumbers}

\* a request without a body has bodyPresent = FALSE: req.body is undefined
Requests ==
    [method : Methods, bodyPresent : {TRUE}, body : RequestBodies]
        \cup [method : Methods, bodyPresent : {FALSE}, body : {<<>>}]

NoRequest == [method |-> "none", bodyPresent |-> FALSE, body |-> <<>>]
NoResponse == [status |-> 0]

\* obj.field of a JSON object, "" standing for undefined
Field(obj, f) == IF f \in DOMAIN obj THEN obj[f] ELSE ""

\* !x for an identifier value
Falsy(x) == x = ""

ScorecardEndpoints ==
    {"snapshot", "records?recordType=inspection_record",
     "records?recordType=violation_record", "records?recordType=crash_record"}
RelayEndpoints == {"CarrierSnapshot"}
Endpoints == ScorecardEndpoints \cup RelayEndpoints

ReportNumbers == {"R1", "R2"}

RECURSIVE SeqsUpTo(_, _)
SeqsUpTo(S, n) ==
    IF n = 0 THEN {<<>>}
    ELSE LET shorter == SeqsUpTo(S, n - 1)
         IN  shorter \cup {Append(q, x) : q \in {t \in shorter : Len(t) = n - 1}, x \in S}

CrashRecord == [report_number : ReportNumbers, fatalities : 0..1]
InspectionRecord == [report_number : ReportNumbers]
ViolationRecord == [report_number : {"R1"}]

\* the JSON body of an error response of the data provider
ErrorBody == [error |-> "upstream error"]

\* JSON bodies of 2xx responses, per endpoint of carrier-scorecard.js; every
\* body is a JSON object, some without the fields the handler reads
SnapshotBodies ==
    [carrier_status : {"Active", "Inactive"}, legal_name : {"ACME TRUCKING"}]
        \cup [carrier_status : {"Active"}, legal_name : {"ACME TRUCKING"}, dba_name : {"ACME"}]
        \cup {[usdot |-> "1234567"]}

\* one record repeated: the long lists that drive the score down to its floor
RepeatedSeqs(S, n) == {[i \in 1..k |-> x] : x \in S, k \in 1..n}

RecordBodies(R) ==
    {[records |-> q] : q \in SeqsUpTo(R, MaxRecords) \cup RepeatedSeqs(R, MaxRepeated)}
        \cup {[total |-> 0]}

OkBodies(e) ==
    IF e = "snapshot" THEN SnapshotBodies
    ELSE IF e = "records?recordType=inspection_record" THEN RecordBodies(InspectionRecord)
    ELSE IF e = "records?recordType=violation_record" THEN RecordBodies(ViolationRecord)
    ELSE RecordBodies(CrashRecord)

\* A promise, of fetch() or of json(): st is idle (not created), pending,
\* fulfilled or rejected; upstream records what the provider did: "2xx", "non2xx"
\* or "network"; value is the parsed JSON a json() promise is fulfilled with
\* (<<>> for a fetch() promise, whose Response is told by upstream alone),
\* message the error of a rejected promise
Idle == [st |-> "idle", upstream |-> "none", value |-> <<>>, message |-> ""]
Pending == [st |-> "pending", upstream |-> "none", value |-> <<>>, message |-> ""]
Fulfilled(up, v) == [st |-> "fulfilled", upstream |-> up, value |-> v, message |-> ""]
Rejected(up, m) == [st |-> "rejected", upstream |-> up, value |-> <<>>, message |-> m]

\* the message of the TypeError fetch() rejects with
NetworkErrorMessage == "fetch failed"

\* the message of the SyntaxError json() rejects with on the body <html>, which
\* is not JSON (older versions of the runtime word it "Unexpected token < in
\* JSON at position 0")
ParseErrorMessage == "Unexpected token '<', \"<html>\" is not valid JSON"

----------------------------------------------------------------------------
(* The handler of src/api/carrier-scorecard.js, lines 221-315 *)

Json(status, json) == [status |-> status, json |-> json]

\* (x.records || []) of a parsed upstream body
RecordsOf(body) == IF "records" \in DOMAIN body THEN body.records ELSE <<>>

IsFatal(c) == c.fatalities > 0

\* x || fallback for a string field of a parsed upstream body
OrElse(x, fallback) == IF x = "" THEN fallback ELSE x

\* reasons.join(' | ')
RECURSIVE Join(_)
Join(reasons) ==
    IF Len(reasons) = 0 THEN ""
    ELSE IF Len(reasons) = 1 THEN reasons[1]
    ELSE reasons[1] \o " | " \o Join(Tail(reasons))

Max(a, b) == IF a >= b THEN a ELSE b
Min(a, b) == IF a <= b THEN a ELSE b

scorecardGrade(total_score) ==
    IF total_score >= 95 THEN "A+"
    ELSE IF total_score >= 90 THEN "A"
    ELSE IF total_score >= 85 THEN "B+"
    ELSE IF total_score >= 80 THEN "B"
    ELSE IF total_score >= 75 THEN "C+"
    ELSE IF total_score >= 70 THEN "C"
    ELSE IF total_score >= 65 THEN "D"
    ELSE "F"

\* lines 233 and 248-301: the 200 response computed from the four parsed bodies
\* line 258 without the floor at 0
clampScoreNoFloor(score) == Min(100, score)

\* line 258: Math.max(0, Math.min(100, score))
clampScore(score) == Max(0, Min(100, score))

ScorecardOk(body, snapshot, inspections, violations, crashes) ==
    LET mc_number == Field(body, "mc_number")
        carrier_id == OrElse(Field(body, "usdot_number"), mc_number)
        crash_count == Len(RecordsOf(crashes))
        fatal_crashes == Len(SelectSeq(RecordsOf(crashes), IsFatal))
        violations_count == Len(RecordsOf(violations))
        inspection_count == Len(RecordsOf(inspections))
        score == 100 - violations_count * 2 - inspection_count
                     - crash_count * 5 - fatal_crashes * 15
        total_score == clampScore(score)
        grade == scorecardGrade(total_score)
        status == OrElse(Field(snapshot, "carrier_status"), "Unknown")
        r1 == PushIf(status # "Active", <<>>, "Carrier status: " \o status)
        r2 == PushIf(fatal_crashes > 0, r1, "Fatal crashes: " \o ToString(fatal_crashes))
        reasons == PushIf(total_score < 60, r2, "Score too low: " \o ToString(total_score))
        j1 == IF status # "Active" THEN "true" ELSE "false"
        j2 == IF fatal_crashes > 0 THEN "true" ELSE j1
        auto_reject == IF total_score < 60 THEN "true" ELSE j2
    IN  Json(200,
             [carrier_name |-> OrElse(Field(snapshot, "legal_name"), "N/A"),
              dba |-> OrElse(Field(snapshot, "dba_name"), "N/A"),
              mc_number |-> mc_number,
              usdot_number |-> carrier_id,
              carrier_status |-> status,
              total_score |-> total_score,
              grade |-> grade,
              inspections_count |-> inspection_count,
              violations_count |-> violations_count,
              crash_count |-> crash_count,
              fatal_crashes |-> fatal_crashes,
              auto_reject |-> auto_reject,
              auto_reject_reasons |-> OrElse(Join(reasons), "None")])

\* lines 302-314: the catch block
ScorecardError(body, message) ==
    LET mc_number == Field(body, "mc_number")
        carrier_id == OrElse(Field(body, "usdot_number"), mc_number)
    IN  Json(500,
             [error |-> TRUE,
              error_message |-> message,
              mc_number |-> mc_number,
              usdot_number |-> carrier_id,
              total_score |-> 0,
              grade |-> "F",
              auto_reject |-> "true",
              auto_reject_reasons |-> "API Error: " \o message])

\* lines 221-246: the handler up to its await; destructuring an undefined
\* req.body throws a TypeError outside the try block
ScorecardHandler ==
    /\ route = "scorecard"
    /\ pc = "start"
    /\ IF req.method # "POST"
       THEN /\ res' = Json(405, [error |-> "Method not allowed"])
            /\ pc' = "done"
            /\ UNCHANGED fetches
       ELSE IF ~req.bodyPresent
       THEN /\ pc' = "threw"
            /\ UNCHANGED <<res, fetches>>
       ELSE IF Falsy(Field(req.body, "mc_number")) /\ Falsy(Field(req.body, "usdot_number"))
       THEN /\ res' = Json(400, [error |-> "MC or USDOT number required"])
            /\ pc' = "done"
            /\ UNCHANGED fetches
       ELSE /\ fetches' = [e \in Endpoints |->
                              IF e \in ScorecardEndpoints THEN Pending ELSE Idle]
            /\ pc' = "awaiting"
            /\ UNCHANGED res
    /\ UNCHANGED <<data, result, route, req, parse>>

\* lines 237-239: a response of the provider arrives, whatever its HTTP status;
\* the promise of fetch() fulfils and the then-callback calls res.json().  The
\* handler stays at its await.
ScorecardFetchFulfil(e) ==
    /\ route = "scorecard"
    /\ fetches[e].st = "pending"
    /\ \E up \in {"2xx", "non2xx"} :
          /\ fetches' = [fetches EXCEPT ![e] = Fulfilled(up, <<>>)]
          /\ parse' = [parse EXCEPT ![e] = Pending]
    /\ UNCHANGED <<data, result, route, req, pc, res>>

\* lines 237-246 and 302-314: the fetch fails on the network; the promise of
\* fetchWithAuth rejects, json() is never called.  Promise.all rejects with the
\* first rejection and the handler's catch block answers; later rejections
\* change nothing.
ScorecardFetchReject(e) ==
    /\ route = "scorecard"
    /\ fetches[e].st = "pending"
    /\ fetches' = [fetches EXCEPT ![e] = Rejected("network", NetworkErrorMessage)]
    /\ IF pc = "awaiting"
       THEN /\ res' = ScorecardError(req.body, NetworkErrorMessage)
            /\ pc' = "done"
       ELSE UNCHANGED <<res, pc>>
    /\ UNCHANGED <<data, result, route, req, parse>>

\* lines 239-301: the body of a response (2xx or not) parses and the promise of
\* fetchWithAuth fulfils with it.  When it is the last of the four, Promise.all
\* fulfils and the handler runs on to its 200 response.
ScorecardJsonFulfil(e) ==
    /\ route = "scorecard"
    /\ parse[e].st = "pending"
    /\ LET up == fetches[e].upstream
       IN  \E body \in (IF up = "2xx" THEN OkBodies(e) ELSE {ErrorBody}) :
              /\ parse' = [parse EXCEPT ![e] = Fulfilled(up, body)]
              /\ IF pc = "awaiting"
                    /\ \A f \in ScorecardEndpoints : parse'[f].st = "fulfilled"
                 THEN /\ res' = ScorecardOk(req.body,
                                    parse'["snapshot"].value,
                                    parse'["records?recordType=inspection_record"].value,
                                    parse'["records?recordType=violation_record"].value,
                                    parse'["records?recordType=crash_record"].value)
                      /\ pc' = "done"
                 ELSE UNCHANGED <<res, pc>>
    /\ UNCHANGED <<data, result, route, req, fetches>>

\* lines 239-246 and 302-314: the body of a response (2xx or not) is not JSON
\* and json() rejects; Promise.all rejects with the first rejection and the
\* handler's catch block answers.
ScorecardJsonReject(e) ==
    /\ route = "scorecard"
    /\ parse[e].st = "pending"
    /\ parse' = [parse EXCEPT ![e] = Rejected(fetches[e].upstream, ParseErrorMessage)]
    /\ IF pc = "awaiting"
       THEN /\ res' = ScorecardError(req.body, ParseErrorMessage)
            /\ pc' = "done"
       ELSE UNCHANGED <<res, pc>>
    /\ UNCHANGED <<data, result, route, req, fetches>>

----------------------------------------------------------------------------
(* The handler of src/api/safer-relay.js, lines 4-256.                      *)
(* Dates of the SAFER payload are held as their distance from now:          *)
(* date_of_authority in days, mcs_150_form_date in calendar months.         *)
(* total_score of this handler's payload is kept in hundredths of a point.  *)

FieldB(obj, f) == IF f \in DOMAIN obj THEN obj[f] ELSE FALSE
FieldN(obj, f) == IF f \in DOMAIN obj THEN obj[f] ELSE 0
OrElseN(x, fallback) == IF x = 0 THEN fallback ELSE x

GoodCarrier ==
    [usdot_status |-> "Active", operating_authority |-> "Active",
     date_of_authority |-> 800, mcs_150_form_date |-> 6,
     safety_rating |-> "Satisfactory", double_brokerage_indicator |-> FALSE,
     insurance_verified |-> TRUE, insurance_status |-> "Active",
     legal_name |-> "ACME TRUCKING", dba_name |-> "ACME",
     principal_address |-> "1 MAIN ST", phone_number |-> "5550100"]

PoorCarrier ==
    [usdot_status |-> "Inactive", date_of_authority |-> 200,
     mcs_150_form_date |-> 30, safety_rating |-> "Unsatisfactory",
     double_brokerage_indicator |-> TRUE, insurance_status |-> "Inactive",
     legal_name |-> "ACME TRUCKING"]

SaferCarriers == {<<>>, GoodCarrier, PoorCarrier}

SaferCrashes ==
    {<<>>, [fatal_count |-> 0, injury_count |-> 0],
     [fatal_count |-> 1, injury_count |-> 2], [fatalities |-> 1, injury_crashes |-> 5]}

SaferInspections ==
    {<<>>,
     [vehicle_inspections |-> 20, vehicle_oos |-> 2, driver_inspections |-> 20, driver_oos |-> 1],
     [vehicle_inspections |-> 10, vehicle_oos |-> 5, driver_inspections |-> 10, driver_oos |-> 3]}

SaferViolations ==
    {<<>>, <<[description |-> "Drug test refusal"]>>, <<[description |-> "Speeding"]>>,
     <<[code |-> "392.2"]>>,
     <<[description |-> "ALCOHOL possession"], [description |-> "Drug test refusal"]>>}

SaferBodies ==
    [carrier : SaferCarriers, crashes : SaferCrashes,
     inspections : SaferInspections, violations : SaferViolations]

relayCalculateAuthorityAge(dateOfAuthority) ==
    IF dateOfAuthority = 0 THEN 0 ELSE dateOfAuthority \div 30

isCurrentMCS150(mcsFormDate) == mcsFormDate < 24

\* description.toLowerCase() includes 'drug' or 'alcohol'
MentionsDrugOrAlcohol(v) ==
    /\ "description" \in DOMAIN v
    /\ v.description \in {"Drug test refusal", "ALCOHOL possession"}

countDrugAlcoholViolations(violations) ==
    Len(SelectSeq(violations, MentionsDrugOrAlcohol))

calculateFMCSAScore(status, authority, age, mcsCurrent) ==
    (IF status = "Active" THEN 25 ELSE 0)
        + (IF authority = "Active" THEN 35 ELSE 0)
        + (IF age >= 24 THEN 25 ELSE 0)
        + (IF mcsCurrent THEN 15 ELSE 0)

calculateSafetyScore(rating, drugAlcohol, fatal, injury) ==
    Min(100, (IF rating = "Satisfactory" THEN 35 ELSE 0)
                 + (IF drugAlcohol = 0 THEN 30 ELSE 0)
                 + (IF fatal = 0 THEN 20 ELSE 0)
                 + Max(0, 8 - (injury * 2)))

\* the rates are oos / inspections (0 when there were no inspections); the
\* national averages are 0.2226 and 0.0667
calculateOOSScore(vehicleOOS, vehicleInspections, driverOOS, driverInspections) ==
    Min(100, (IF vehicleInspections = 0 \/ vehicleOOS * 100000 <= 17808 * vehicleInspections
              THEN 45 ELSE 0)
                 + (IF driverInspections = 0 \/ driverOOS * 10000 <= 667 * driverInspections
                    THEN 25 ELSE 0)
                 + (IF vehicleInspections >= 15 THEN 20 ELSE 0))

relayCalculateBusinessLegitimacy(carrier) ==
    Min(100, 50 + (IF Field(carrier, "legal_name") # "" THEN 10 ELSE 0)
                + (IF Field(carrier, "dba_name") # "" THEN 10 ELSE 0)
                + (IF Field(carrier, "principal_address") # "" THEN 10 ELSE 0)
                + (IF Field(carrier, "phone_number") # "" THEN 5 ELSE 0))

\* getGrade on a score in hundredths
getGrade(score) ==
    IF score >= 9000 THEN "A"
    ELSE IF score >= 8000 THEN "B"
    ELSE IF score >= 7000 THEN "C"
    ELSE IF score >= 6000 THEN "D"
    ELSE "F"

\* a score in hundredths printed as JavaScript prints the number
ShowScore(x) ==
    IF x % 100 = 0 THEN ToString(x \div 100)
    ELSE IF x % 10 = 0 THEN ToString(x \div 100) \o "." \o ToString((x % 100) \div 10)
    ELSE ToString(x \div 100) \o "." \o (IF x % 100 < 10 THEN "0" ELSE "") \o ToString(x % 100)

\* lines 33-174: the 200 response computed from the parsed SAFER payload
RelayOk(body, saferData) ==
    LET carrier == saferData.carrier
        crashes == saferData.crashes
        inspections == saferData.inspections
        usdotStatus == OrElse(Field(carrier, "usdot_status"), "Unknown")
        operatingAuthority == OrElse(Field(carrier, "operating_authority"), "Unknown")
        authorityAge == relayCalculateAuthorityAge(FieldN(carrier, "date_of_authority"))
        mcsCurrent == IF "mcs_150_form_date" \in DOMAIN carrier
                      THEN isCurrentMCS150(carrier.mcs_150_form_date) ELSE FALSE
        safetyRating == OrElse(Field(carrier, "safety_rating"), "Unknown")
        drugAlcoholViolations == countDrugAlcoholViolations(saferData.violations)
        fatalCrashes == OrElseN(FieldN(crashes, "fatal_count"), FieldN(crashes, "fatalities"))
        injuryCrashes == OrElseN(FieldN(crashes, "injury_count"), FieldN(crashes, "injury_crashes"))
        doubleBrokerageIndicator == FieldB(carrier, "double_brokerage_indicator")
        vehicleInspections == FieldN(inspections, "vehicle_inspections")
        vehicleOOS == FieldN(inspections, "vehicle_oos")
        driverInspections == FieldN(inspections, "driver_inspections")
        driverOOS == FieldN(inspections, "driver_oos")
        insuranceVerified == FieldB(carrier, "insurance_verified")
        insuranceStatus == OrElse(Field(carrier, "insurance_status"), "Unknown")
        businessLegitimacyScore == relayCalculateBusinessLegitimacy(carrier)
        scores ==
            [fmcsa_authority |-> calculateFMCSAScore(usdotStatus, operatingAuthority,
                                                     authorityAge, mcsCurrent),
             double_brokerage |-> IF doubleBrokerageIndicator THEN 0 ELSE 100,
             safety_compliance |-> calculateSafetyScore(safetyRating, drugAlcoholViolations,
                                                        fatalCrashes, injuryCrashes),
             inspections_oos |-> calculateOOSScore(vehicleOOS, vehicleInspections,
                                                   driverOOS, driverInspections),
             insurance_verification |-> IF insuranceVerified THEN 100 ELSE 50,
             business_legitimacy |-> businessLegitimacyScore]
        totalScore == scores.fmcsa_authority * 20 + scores.double_brokerage * 25
                          + scores.safety_compliance * 20 + scores.inspections_oos * 15
                          + scores.insurance_verification * 15
                          + scores.business_legitimacy * 5
        grade == getGrade(totalScore)
        a1 == PushIf(fatalCrashes > 0, <<>>, "Fatal crash(es) on record")
        a2 == PushIf(drugAlcoholViolations > 0, a1, "Drug/alcohol violation(s)")
        a3 == PushIf(doubleBrokerageIndicator, a2, "Double brokerage risk detected")
        a4 == PushIf(~insuranceVerified \/ insuranceStatus # "Active", a3,
                     "Insurance not verified or inactive")
        a5 == PushIf(safetyRating = "Unsatisfactory", a4, "Unsatisfactory safety rating")
        autoRejectReasons == PushIf(totalScore < 6000, a5,
                                    "Score too low: " \o ShowScore(totalScore))
        autoReject == IF Len(autoRejectReasons) > 0 THEN "true" ELSE "false"
    IN  Json(200,
             [carrier_name |-> OrElse(Field(carrier, "legal_name"), "Unknown"),
              dba |-> OrElse(Field(carrier, "dba_name"), "N/A"),
              mc_number |-> Field(body, "mc_number"),
              usdot_number |-> OrElse(Field(body, "usdot_number"), Field(carrier, "usdot_number")),
              usdot_status |-> usdotStatus,
              operating_authority |-> operatingAuthority,
              authority_age_months |-> authorityAge,
              mcs_150_current |-> mcsCurrent,
              safety_rating |-> safetyRating,
              drug_alcohol_violations |-> drugAlcoholViolations,
              fatal_crashes |-> fatalCrashes,
              injury_crashes |-> injuryCrashes,
              double_brokerage_indicator |-> doubleBrokerageIndicator,
              vehicle_inspections_count |-> vehicleInspections,
              vehicle_oos_count |-> vehicleOOS,
              driver_inspections_count |-> driverInspections,
              driver_oos_count |-> driverOOS,
              insurance_verified |-> insuranceVerified,
              insurance_status |-> insuranceStatus,
              business_legitimacy_score |-> businessLegitimacyScore,
              total_score |-> totalScore,
              grade |-> grade,
              scores |-> scores,
              auto_reject |-> autoReject,
              auto_reject_reasons |-> OrElse(Join(autoRejectReasons),
                                             "Carrier meets compliance requirements")])

\* lines 22-31: the answer to a response that is not ok
RelayNotFound ==
    Json(404,
         [error |-> "Carrier not found",
          carrier_name |-> "N/A",
          total_score |-> 0,
          grade |-> "F",
          auto_reject |-> "true",
          auto_reject_reasons |-> "Carrier not found in SAFER database"])

\* lines 176-187: the catch block
RelayError(message) ==
    Json(500,
         [error |-> "Internal server error",
          error_message |-> message,
          carrier_name |-> "N/A",
          total_score |-> 0,
          grade |-> "F",
          auto_reject |-> "true",
          auto_reject_reasons |-> "Server error: " \o message])

\* lines 4-20: the handler up to its first await, the one of fetch()
RelayHandler ==
    /\ route = "relay"
    /\ pc = "start"
    /\ IF req.method # "POST"
       THEN /\ res' = Json(405, [error |-> "Method not allowed"])
            /\ pc' = "done"
            /\ UNCHANGED fetches
       ELSE IF ~req.bodyPresent
       THEN /\ pc' = "threw"
            /\ UNCHANGED <<res, fetches>>
       ELSE IF Falsy(Field(req.body, "mc_number")) /\ Falsy(Field(req.body, "usdot_number"))
       THEN /\ res' = Json(400, [error |-> "MC or USDOT number required"])
            /\ pc' = "done"
            /\ UNCHANGED fetches
       ELSE /\ fetches' = [e \in Endpoints |->
                              IF e \in RelayEndpoints THEN Pending ELSE Idle]
            /\ pc' = "awaiting"
            /\ UNCHANGED res
    /\ UNCHANGED <<data, result, route, req, parse>>

\* lines 18-33: fetch() fulfils with an ok Response; the handler passes the test
\* of line 22, calls saferResponse.json() and waits for the body.  Nothing is
\* sent yet.
RelayFetchOk ==
    /\ route = "relay"
    /\ pc = "awaiting"
    /\ fetches["CarrierSnapshot"].st = "pending"
    /\ fetches' = [fetches EXCEPT !["CarrierSnapshot"] = Fulfilled("2xx", <<>>)]
    /\ parse' = [parse EXCEPT !["CarrierSnapshot"] = Pending]
    /\ pc' = "reading"
    /\ UNCHANGED <<data, result, route, req, res>>

\* lines 18-31: fetch() fulfils with a Response that is not ok; the handler
\* answers 404 and the body is never read
RelayFetchNotOk ==
    /\ route = "relay"
    /\ pc = "awaiting"
    /\ fetches["CarrierSnapshot"].st = "pending"
    /\ fetches' = [fetches EXCEPT !["CarrierSnapshot"] = Fulfilled("non2xx", <<>>)]
    /\ res' = RelayNotFound
    /\ pc' = "done"
    /\ UNCHANGED <<data, result, route, req, parse>>

\* lines 18 and 176-187: the fetch fails on the network and the catch block
\* answers
RelayFetchReject ==
    /\ route = "relay"
    /\ pc = "awaiting"
    /\ fetches["CarrierSnapshot"].st = "pending"
    /\ fetches' = [fetches EXCEPT !["CarrierSnapshot"] =
                                      Rejected("network", NetworkErrorMessage)]
    /\ res' = RelayError(NetworkErrorMessage)
    /\ pc' = "done"
    /\ UNCHANGED <<data, result, route, req, parse>>

\* lines 33-174: the body of the ok Response parses and the handler runs on to
\* its 200 response
RelayJsonFulfil ==
    /\ route = "relay"
    /\ pc = "reading"
    /\ parse["CarrierSnapshot"].st = "pending"
    /\ \E saferData \in SaferBodies :
          /\ parse' = [parse EXCEPT !["CarrierSnapshot"] = Fulfilled("2xx", saferData)]
          /\ res' = RelayOk(req.body, saferData)
    /\ pc' = "done"
    /\ UNCHANGED <<data, result, route, req, fetches>>

\* lines 33 and 176-187: the body of the ok Response is not JSON, json() rejects
\* and the catch block answers
RelayJsonReject ==
    /\ route = "relay"
    /\ pc = "reading"
    /\ parse["CarrierSnapshot"].st = "pending"
    /\ parse' = [parse EXCEPT !["CarrierSnapshot"] = Rejected("2xx", ParseErrorMessage)]
    /\ res' = RelayError(ParseErrorMessage)
    /\ pc' = "done"
    /\ UNCHANGED <<data, result, route, req, fetches>>

----------------------------------------------------------------------------
(* One request served by one of the two handlers *)

Init ==
    /\ data = PerfectProfile
    /\ result = NoResult
    /\ route \in {"scorecard", "relay"}
    /\ req \in Requests
    /\ pc = "start"
    /\ fetches = [e \in Endpoints |-> Idle]
    /\ parse = [e \in Endpoints |-> Idle]
    /\ res = NoResponse

Next ==
    \/ ScorecardHandler
    \/ \E e \in ScorecardEndpoints : ScorecardFetchFulfil(e)
    \/ \E e \in ScorecardEndpoints : ScorecardFetchReject(e)
    \/ \E e \in ScorecardEndpoints : ScorecardJsonFulfil(e)
    \/ \E e \in ScorecardEndpoints : ScorecardJsonReject(e)
    \/ RelayHandler
    \/ RelayFetchOk
    \/ RelayFetchNotOk
    \/ RelayFetchReject
    \/ RelayJsonFulfil
    \/ RelayJsonReject

Spec == Init /\ [][Next]_vars

----------------------------------------------------------------------------
(* The scorer as a state machine: one call of calculateScorecard *)

InitScore ==
    /\ data \in Profiles
    /\ result = NoResult
    /\ route = "none"
    /\ req = NoRequest
    /\ pc = "idle"
    /\ fetches = [e \in Endpoints |-> Idle]
    /\ parse = [e \in Endpoints |-> Idle]
    /\ res = NoResponse

CalculateScorecard ==
    /\ result = NoResult
    /\ result' = calculateScorecard(data)
    /\ UNCHANGED <<data, handlerVars>>

NextScore == CalculateScorecard

SpecScore == InitScore /\ [][NextScore]_vars


----------------------------------------------------------------------------
(* Properties of calculateScorecard, checked under SpecScore *)

Scored == result # NoResult

\* C1: every category sub-score and the total score lie in [0,100], for every
\* profile whose fields are within their declared domains.
C1_ScoresWithinRange ==
    Scored =>
        /\ \A c \in DOMAIN result.categories :
              result.categories[c].score \in 0..100
        /\ DOMAIN result.categories =
              {"fmcsaAuthorityAge", "doubleBrokerageRisk", "safetyCompliance",
               "inspectionsOOS", "insuranceVerification", "businessLegitimacy"}
        /\ result.score \in 0..100

\* a scored profile with one category at its floor and another at its ceiling
C1_Witness ==
    /\ Scored
    /\ result.categories.doubleBrokerageRisk.score = 0
    /\ result.categories.fmcsaAuthorityAge.score = 100

\* the auto-reject conditions as the spec lists them
AnyAutoReject(d) ==
    \/ d.fatal_crashes > 0 /\ d.fatal_crash_at_fault
    \/ d.drug_alcohol_violations > 0
    \/ d.safety_rating = "Unsatisfactory"
    \/ d.insurer_callback_status = "Refused"
    \/ d.authority_scope_mismatch
    \/ d.insurance_holder_is_third_party
    \/ d.load_reposting_observed /\ ~d.reposting_disclosed

\* C2: whenever an auto-reject condition holds for the profile, rejectTriggers is
\* non-empty and the recommendation is "Reject / Do Not Use" with risk level
\* "High Risk (Auto-Reject)", whatever the other fields and the total score.
C2_TriggerForcesReject ==
    (Scored /\ AnyAutoReject(data)) =>
        /\ Len(result.rejectTriggers) > 0
        /\ result.recommendation = "Reject / Do Not Use"
        /\ result.riskLevel = "High Risk (Auto-Reject)"

\* an auto-reject condition on a profile whose score alone would approve it
C2_Witness ==
    /\ Scored
    /\ AnyAutoReject(data)
    /\ result.score >= 86

\* "perfect values across all categories" as the spec words it
PerfectExceptRiskFlags(d) ==
    /\ d.usdot_status = "Active"
    /\ d.operating_authority_status = "Active"
    /\ d.authority_age_months >= 36
    /\ d.mcs150_biennial_update = "Current"
    /\ d.safety_rating = "Satisfactory"
    /\ d.drug_alcohol_violations = 0
    /\ d.fatal_crashes = 0
    /\ d.injury_crashes = 0
    /\ d.vehicle_oos_rate_pct = 0
    /\ d.driver_oos_rate_pct = 0
    /\ d.bipd_filing_active
    /\ d.bipd_limit_usd >= 1000000
    /\ d.cargo_insurance_verified
    /\ d.insurer_callback_status = "Verified"
    /\ d.website_active_12mo
    /\ d.facebook_active_12mo
    /\ d.address_consistent_with_fmcsa
    /\ d.growth_trend_pct > 0

PerfectAsClaimed(d) ==
    /\ PerfectExceptRiskFlags(d)
    /\ ~d.authority_scope_mismatch
    /\ ~d.contact_mismatch
    /\ ~d.insurance_holder_is_third_party
    /\ ~d.load_reposting_observed

\* C5 as the spec states it: a perfect profile scores 100 and is approved.
C5_PerfectScores100 ==
    (Scored /\ PerfectAsClaimed(data)) =>
        /\ result.score = 100
        /\ result.recommendation = "Approved Low Risk"

\* C5 amended: a perfect profile is approved as low risk with no trigger and a
\* score of at least 94; the score is 100 exactly when moreover the email is a
\* domain match, there are at least 15 inspections and growth is at least 2%.
C5_PerfectApproved ==
    (Scored /\ PerfectAsClaimed(data)) =>
        /\ result.recommendation = "Approved Low Risk"
        /\ result.riskLevel = "Low Risk"
        /\ result.rejectTriggers = <<>>
        /\ result.score >= 94
        /\ result.score = 100 <=>
              /\ data.email_type = "DomainMatch"
              /\ data.total_inspections_24mo >= 15
              /\ data.growth_trend_pct >= 2 * PctScale

\* a perfect profile that scores 100
C5_Witness ==
    /\ Scored
    /\ PerfectAsClaimed(data)
    /\ result.score = 100

PerfectExceptThirdParty(d) ==
    /\ PerfectExceptRiskFlags(d)
    /\ ~d.authority_scope_mismatch
    /\ ~d.contact_mismatch
    /\ d.insurance_holder_is_third_party
    /\ ~d.load_reposting_observed

\* C6: a profile perfect but for insurance_holder_is_third_party = true fires the
\* trigger DB_THIRD_PARTY_INS_HOLDER and is rejected, though its weighted score
\* is still at least 86.
C6_ThirdPartyRejectedDespiteScore ==
    (Scored /\ PerfectExceptThirdParty(data)) =>
        /\ \E i \in 1..Len(result.rejectTriggers) :
              result.rejectTriggers[i].id = "DB_THIRD_PARTY_INS_HOLDER"
        /\ result.recommendation = "Reject / Do Not Use"
        /\ result.score >= 86

\* such a profile, scored; its only trigger is the third-party holder
C6_Witness ==
    /\ Scored
    /\ PerfectExceptThirdParty(data)
    /\ Len(result.rejectTriggers) = 1
    /\ result.score < 90

\* C7: with no reject trigger the recommendation is decided by the score alone
\* (>= 86 approved, 75..85 conditional, < 75 reject), and "Approved Low Risk" is
\* returned only with no trigger and a score of at least 86.
C7_RecommendationByScore ==
    Scored =>
        /\ result.rejectTriggers = <<>> =>
              /\ result.score >= 86 =>
                    /\ result.recommendation = "Approved Low Risk"
                    /\ result.riskLevel = "Low Risk"
              /\ (result.score >= 75 /\ result.score <= 85) =>
                    /\ result.recommendation = "Conditional Verification Required"
                    /\ result.riskLevel = "Moderate Risk"
              /\ result.score < 75 =>
                    /\ result.recommendation = "Reject / Do Not Use"
                    /\ result.riskLevel = "High Risk"
        /\ result.recommendation = "Approved Low Risk" =>
              /\ result.rejectTriggers = <<>>
              /\ result.score >= 86

\* a profile without triggers scored exactly 86, the lowest approved score
C7_Witness ==
    /\ Scored
    /\ result.rejectTriggers = <<>>
    /\ result.score = 86
    /\ result.recommendation = "Approved Low Risk"

\* the weighted sum of the sub-scores, in hundredths, with the spec's weights
ClaimedWeightedSum ==
    20 * result.categories.fmcsaAuthorityAge.score
        + 25 * result.categories.doubleBrokerageRisk.score
        + 20 * result.categories.safetyCompliance.score
        + 15 * result.categories.inspectionsOOS.score
        + 15 * result.categories.insuranceVerification.score
        + 5 * result.categories.businessLegitimacy.score

\* C9: the total score is the weighted sum of the six sub-scores with weights
\* 0.20, 0.25, 0.20, 0.15, 0.15 and 0.05 (summing to 1.0), rounded to the
\* nearest integer (a half rounding up).
C9_WeightedSumRounded ==
    Scored =>
        /\ ClaimedWeightedSum - 100 * result.score \in (0 - 50)..49
        /\ weights.fmcsaAuthorityAge + weights.doubleBrokerageRisk
              + weights.safetyCompliance + weights.inspectionsOOS
              + weights.insuranceVerification + weights.businessLegitimacy = 100

\* a profile whose weighted sum ends in .5 and is rounded up
C9_Witness ==
    /\ Scored
    /\ ClaimedWeightedSum % 100 = 50
    /\ 100 * result.score = ClaimedWeightedSum + 50

AtFaultFatal(d) == d.fatal_crashes > 0 /\ d.fatal_crash_at_fault

\* C10 as the spec states it: base by rating (100, 70, 50, 0), minus 20 for any
\* drug/alcohol violation, minus 30 for an at-fault fatal crash, floored at 0.
C10_SafetyAsClaimed ==
    Scored =>
        result.categories.safetyCompliance.score =
            Max(0, (CASE data.safety_rating = "Satisfactory" -> 100
                      [] data.safety_rating = "None" -> 70
                      [] data.safety_rating = "Conditional" -> 50
                      [] OTHER -> 0)
                   - (IF data.drug_alcohol_violations > 0 THEN 20 ELSE 0)
                   - (IF AtFaultFatal(data) THEN 30 ELSE 0))

\* C10 amended: base by rating (Satisfactory 100, None 87, Conditional 73,
\* Unsatisfactory 65), minus 30 for any drug/alcohol violation, minus 20 for any
\* fatal crash (at fault or not), minus 7 for one or two injury crashes or 15
\* for more; the result is never below 0.
C10_SafetyAsCoded ==
    Scored =>
        /\ result.categories.safetyCompliance.score =
              (CASE data.safety_rating = "Satisfactory" -> 100
                 [] data.safety_rating = "None" -> 87
                 [] data.safety_rating = "Conditional" -> 73
                 [] OTHER -> 65)
              - (IF data.drug_alcohol_violations > 0 THEN 30 ELSE 0)
              - (IF data.fatal_crashes > 0 THEN 20 ELSE 0)
              - (IF data.injury_crashes = 0 THEN 0
                 ELSE IF data.injury_crashes <= 2 THEN 7 ELSE 15)
        /\ result.categories.safetyCompliance.score >= 0

\* an unrated carrier with a violation, a fatal crash not at fault and injuries
C10_Witness ==
    /\ Scored
    /\ data.safety_rating = "None"
    /\ data.drug_alcohol_violations > 0
    /\ data.fatal_crashes > 0
    /\ ~data.fatal_crash_at_fault
    /\ data.injury_crashes \in 1..2
    /\ result.categories.safetyCompliance.score = 30

----------------------------------------------------------------------------
(* Properties of the two handlers, checked under Spec *)

Answered == pc = "done"

UpstreamFailed(e) == fetches[e].upstream \in {"non2xx", "network"}

Issued == {e \in Endpoints : fetches[e].st # "idle"}

\* C3: if any upstream fetch of a request fails (a non-2xx response or a network
\* error), the handler answers 500 with the worst-case payload (total_score 0,
\* grade F, auto_reject true) and never 200.
C3_UpstreamFailureFailsRequest ==
    (Answered /\ \E e \in Endpoints : UpstreamFailed(e)) =>
        /\ res.status = 500
        /\ res.json.total_score = 0
        /\ res.json.grade = "F"
        /\ res.json.auto_reject = "true"

NoIdentifier(r) ==
    \/ ~r.bodyPresent
    \/ Falsy(Field(r.body, "mc_number")) /\ Falsy(Field(r.body, "usdot_number"))

\* C4: once the handler has run, a request with another method than POST has been
\* answered 405, a POST without mc_number and usdot_number has been answered 400
\* (the method is checked first), and in both cases no fetch was issued.
C4_ValidationBeforeFetch ==
    pc # "start" =>
        /\ req.method # "POST" => (res.status = 405 /\ Issued = {})
        /\ (req.method = "POST" /\ NoIdentifier(req)) => (res.status = 400 /\ Issued = {})

ReportNumbersOf(records) == {records[i].report_number : i \in 1..Len(records)}

FatalReportNumbersOf(records) ==
    {records[i].report_number : i \in {j \in 1..Len(records) : records[j].fatalities > 0}}

\* C8: crash and inspection records are counted once per report number, and a
\* crash event is fatal if any record of its report number has fatalities.
C8_CountsDeduplicated ==
    (route = "scorecard" /\ Answered /\ res.status = 200) =>
        LET crashes == RecordsOf(parse["records?recordType=crash_record"].value)
            inspections == RecordsOf(parse["records?recordType=inspection_record"].value)
        IN  /\ res.json.crash_count = Cardinality(ReportNumbersOf(crashes))
            /\ res.json.inspections_count = Cardinality(ReportNumbersOf(inspections))
            /\ res.json.fatal_crashes = Cardinality(FatalReportNumbersOf(crashes))


Ok200 == route = "scorecard" /\ Answered /\ res.status = 200

\* C11: in every 200 response of the carrier-scorecard handler, total_score is
\* 100 - 2*violations_count - inspections_count - 5*crash_count - 15*fatal_crashes
\* clamped to [0,100]; auto_reject is 'true' exactly when carrier_status is not
\* 'Active' or fatal_crashes > 0 or total_score < 60; auto_reject_reasons is
\* 'None' exactly when auto_reject is 'false'.
C11_ScoreAndAutoReject ==
    Ok200 =>
        LET j == res.json
            raw == 100 - 2 * j.violations_count - j.inspections_count
                       - 5 * j.crash_count - 15 * j.fatal_crashes
        IN  /\ j.total_score = (IF raw < 0 THEN 0 ELSE IF raw > 100 THEN 100 ELSE raw)
            /\ j.auto_reject \in {"true", "false"}
            /\ j.auto_reject = "true" <=>
                  \/ j.carrier_status # "Active"
                  \/ j.fatal_crashes > 0
                  \/ j.total_score < 60
            /\ j.auto_reject_reasons = "None" <=> j.auto_reject = "false"

\* a 200 response that is not auto-rejected although its grade is F
C11_Witness ==
    /\ Ok200
    /\ res.json.auto_reject = "false"
    /\ res.json.auto_reject_reasons = "None"
    /\ res.json.grade = "F"
    /\ res.json.total_score \in 60..64

\* a 200 response whose raw score is negative and is floored at 0
C11_FloorReached ==
    /\ Ok200
    /\ res.json.total_score = 0
    /\ 15 * res.json.fatal_crashes + 5 * res.json.crash_count > 100


====
